---- MODULE Spec2Model ----
(***************************************************************************)
(* Model of rubenv/mysqltest: Start / Stop of a throwaway database server  *)
(* (mysqltest.go, type MySQL) and of the PostgreSQL variant kept in the    *)
(* repository (package pgtest, type PG).                                   *)
(*                                                                         *)
(* Strings are sequences of tokens: "" is << >>, concatenation is \o.      *)
(* Every caller p \in Procs performs one Start call and then Stop calls on *)
(* what Start returned.  The file system, the OS processes and the engine  *)
(* are the environment: each fallible call draws its outcome with \E.      *)
(***************************************************************************)
EXTENDS Integers, Sequences, FiniteSets, TLC

\* ------------------------------------------------------------------ bounds
NProc == 2          \* callers running Start concurrently
MaxStops == 2       \* Stop calls a caller makes on its Instance
MaxArgs == 2        \* arguments handed to prepareCommand
MaxAttempts == 3    \* largest attempts handed to retry on its own

\* ------------------------------------------------------- program constants
Attempts == 1000    \* mysqltest.go:198, part_000:79

Procs == 1..NProc

VARIABLES
    variant,   \* "mysql" (mysqltest.go) or "pg" (part_000): the package in use
    me,        \* user.Current().Username of the calling OS process
    fs,        \* the paths that exist in the file system
    nextDir,   \* number of temporary directories handed out so far
    pc,        \* per caller: where it is in Start / Stop
    isRoot,    \* per caller: local isRoot of Start (mysqltest.go:45)
    dir,       \* per caller: local dir of Start, << >> before TempDir
    isMariaDB, \* per caller: local isMariaDB (mysqltest.go:129)
    osproc,    \* per caller: the server process behind cmd
    pipes,     \* per caller: stderr / stdout pipes of cmd
    polls,     \* per caller: calls and sleeps of the readiness retry
    handles,   \* per caller: the sql.DB handles opened by Start
    inst,      \* per caller: the MySQL / PG struct built by Start, or NoInst
    ret,       \* per caller: what Start returned
    stops,     \* per caller: the results of the Stop calls, in order
    log,       \* per caller: the external calls issued, in order
    call       \* a call of prepareCommand or retry on its own: its arguments
               \* and what came of it

vars == << variant, me, fs, nextDir, pc, isRoot, dir, isMariaDB, osproc, pipes,
           polls, handles, inst, ret, stops, log, call >>

\* ----------------------------------------------------------------- strings
\* strings.Join(elems, sep)
RECURSIVE Join(_, _)
Join(elems, sep) ==
    IF elems = << >> THEN << >>
    ELSE IF Len(elems) = 1 THEN elems[1]
    ELSE elems[1] \o sep \o Join(Tail(elems), sep)

\* path.Join(a, b) for clean, non-empty a and b
PathJoin(a, b) == a \o <<"/">> \o b

\* s has prefix pre
HasPrefix(s, pre) == Len(pre) <= Len(s) /\ SubSeq(s, 1, Len(pre)) = pre

\* strings.Contains(s, sub)
Contains(s, sub) ==
    \E i \in 0..(Len(s) - Len(sub)) : SubSeq(s, i + 1, i + Len(sub)) = sub

\* ------------------------------------------------------------------ errors
NilErr == [isNil |-> TRUE, msg |-> << >>]
Err(m) == [isNil |-> FALSE, msg |-> m]

ExitStatus == Err(<<"exit status 1">>)

\* the combined output a failing command may have written
Outputs == { << >>, <<"fatal: data directory is corrupt">> }

\* --------------------------------------------------------------- Instances
NoInst == [isNil |-> TRUE]
NoDB == [isNil |-> TRUE, name |-> << >>, pinged |-> FALSE, closed |-> FALSE]
\* sql.Open(driver, makeDSN(sock, name)): no connection is made yet
OpenDB(name) == [isNil |-> FALSE, name |-> name, pinged |-> FALSE, closed |-> FALSE]

TmpNames == << <<"001">>, <<"002">>, <<"003">>, <<"004">>, <<"005">>, <<"006">> >>

\* ---------------------------------------------------------------- commands
NoCmd == [path |-> << >>, args |-> << >>]

\* exec.Command(name, args...)
Command(name, args) == [path |-> name, args |-> args]

\* (prepareCommand without the loop of :280-284)
prepareCommand_Unquoted(root, command, args) ==
    IF ~root
    THEN Command(command, args)
    ELSE Command(<<"su">>,
                << <<"-">>, <<"mysql">>, <<"-c">>,
                   Join(<<command>> \o args, <<" ">>) >>)

\* prepareCommand, mysqltest.go:275-292
prepareCommand(root, command, args) ==
    IF ~root
    THEN Command(command, args)
    ELSE LET quoted == [i \in 1..Len(args) |->
                           IF args[i] = << >> THEN <<"'", "'">> ELSE args[i]]
         IN Command(<<"su">>,
                << <<"-">>, <<"mysql">>, <<"-c">>,
                   Join(<<command>> \o quoted, <<" ">>) >>)

\* How the shell started by su -c <line> (mysqltest.go:286-291) splits the
\* line into words: unquoted blanks separate words, single quotes enclose
\* text taken as it is and make a word of their own when they enclose nothing.
RECURSIVE shScan(_, _, _, _, _, _)
shScan(line, i, cur, inWord, quoted, words) ==
    IF i > Len(line)
    THEN IF inWord THEN Append(words, cur) ELSE words
    ELSE IF line[i] = "'"
    THEN shScan(line, i + 1, cur, TRUE, ~quoted, words)
    ELSE IF line[i] = " " /\ ~quoted
    THEN shScan(line, i + 1, << >>, FALSE, FALSE,
                IF inWord THEN Append(words, cur) ELSE words)
    ELSE shScan(line, i + 1, Append(cur, line[i]), TRUE, quoted, words)

ShellSplit(line) == shScan(line, 1, << >>, FALSE, FALSE, << >>)

\* no call of prepareCommand or retry on its own is under way
NoCall == [stage |-> "none"]

\* entries of log: a command that was run, or another call on the environment
\* (out: the combined output of a command that failed; ok: whether the call
\* returned without error)
Exec(what, c, out) ==
    [op |-> "exec", what |-> what, cmd |-> c, out |-> out, ok |-> TRUE]
Sys(op, what) ==
    [op |-> op, what |-> what, cmd |-> NoCmd, out |-> << >>, ok |-> TRUE]
\* what the server process wrote to a stream before it exited
Wrote(stream, out) ==
    [op |-> "wrote", what |-> stream, cmd |-> NoCmd, out |-> out, ok |-> TRUE]
\* the entry of a call that returned an error
Failed(e) == [e EXCEPT !.ok = FALSE]

\* os.RemoveAll(d) when it succeeds
RemoveAll(files, d) == { f \in files : ~HasPrefix(f, d) }

\* ------------------------------------------------------------------- retry
\* (retry giving up one call late: attempts < 0 for attempts <= 0)
retryBody_OneMore(fn, r) ==
    IF r.done THEN r
    ELSE LET n == r.calls + 1
             err == fn[n]
         IN IF err.isNil
            THEN [r EXCEPT !.calls = n, !.done = TRUE, !.err = NilErr]
            ELSE LET a == r.attempts - 1
                 IN IF a < 0
                    THEN [r EXCEPT !.calls = n, !.attempts = a,
                                   !.done = TRUE, !.err = err]
                    ELSE [r EXCEPT !.calls = n, !.attempts = a,
                                   !.sleeps = @ + 1]

\* (retry with time.Sleep ahead of the test of attempts)
retryBody_SleepFirst(fn, r) ==
    IF r.done THEN r
    ELSE LET n == r.calls + 1
             err == fn[n]
         IN IF err.isNil
            THEN [r EXCEPT !.calls = n, !.done = TRUE, !.err = NilErr]
            ELSE LET a == r.attempts - 1
                 IN IF a <= 0
                    THEN [r EXCEPT !.calls = n, !.attempts = a, !.sleeps = @ + 1,
                                   !.done = TRUE, !.err = err]
                    ELSE [r EXCEPT !.calls = n, !.attempts = a,
                                   !.sleeps = @ + 1]

\* One pass through the body of the for loop of retry, mysqltest.go:260-272.
\* fn[i] is the error returned by the i-th call of fn; r is the loop state.
retryBody(fn, r) ==
    IF r.done THEN r
    ELSE LET n == r.calls + 1
             err == fn[n]
         IN IF err.isNil
            THEN [r EXCEPT !.calls = n, !.done = TRUE, !.err = NilErr]
            ELSE LET a == r.attempts - 1
                 IN IF a <= 0
                    THEN [r EXCEPT !.calls = n, !.attempts = a,
                                   !.done = TRUE, !.err = err]
                    ELSE [r EXCEPT !.calls = n, !.attempts = a,
                                   !.sleeps = @ + 1]

\* n passes through the loop body, halving n to keep the evaluation shallow
RECURSIVE retryLoop(_, _, _)
retryLoop(fn, r, n) ==
    IF n = 0 THEN r
    ELSE IF n = 1 THEN retryBody(fn, r)
    ELSE LET h == n \div 2
             m == retryLoop(fn, r, h)
         IN IF m.done THEN m ELSE retryLoop(fn, m, n - h)

\* retry(fn, attempts, interval), mysqltest.go:259-273: the loop is left after
\* at most Len(fn) passes in every use made of it here
retry(fn, attempts) ==
    retryLoop(fn, [attempts |-> attempts, calls |-> 0, sleeps |-> 0,
                   done |-> FALSE, err |-> NilErr], Len(fn))

\* The engine as the readiness poll sees it: the first k calls of fn fail with
\* e, every later call succeeds.
FnResults(k, e, n) == [i \in 1..n |-> IF i <= k THEN e ELSE NilErr]

\* numbers of failing polls tried: none, one, all but the last of the budget,
\* the whole budget, more than the budget
ReadyAfter == {0, 1, Attempts - 1, Attempts, Attempts + 1}

NoPolls == [calls |-> 0, sleeps |-> 0, err |-> NilErr]
NoRet == [done |-> FALSE, nilInst |-> TRUE, err |-> NilErr]
NoPipes == [stderr |-> "none", stdout |-> "none"]

\* -------------------------------------------------------------------- Init
\* One caller: caller 1 calls Start, the others never do.
Init ==
    /\ variant \in {"mysql", "pg"}
    /\ me \in {"root", "user"}
    /\ fs = {}
    /\ nextDir = 0
    /\ pc = [p \in Procs |-> IF p = 1 THEN "idle" ELSE "absent"]
    /\ isRoot = [p \in Procs |-> FALSE]
    /\ dir = [p \in Procs |-> << >>]
    /\ isMariaDB = [p \in Procs |-> FALSE]
    /\ osproc = [p \in Procs |-> "none"]
    /\ pipes = [p \in Procs |-> NoPipes]
    /\ polls = [p \in Procs |-> NoPolls]
    /\ handles = [p \in Procs |-> [opened |-> 0, closed |-> 0]]
    /\ inst = [p \in Procs |-> NoInst]
    /\ ret = [p \in Procs |-> NoRet]
    /\ stops = [p \in Procs |-> << >>]
    /\ log = [p \in Procs |-> << >>]
    /\ call = NoCall

\* `return nil, err` of Start
Fail(p, e) ==
    /\ pc' = [pc EXCEPT ![p] = "failed"]
    /\ ret' = [ret EXCEPT ![p] = [done |-> TRUE, nilInst |-> TRUE, err |-> e]]

\* paths derived from the storage root, mysqltest.go:74-76 and :106
dataDirOf(d) == PathJoin(d, <<"data">>)
\* (a socket directory that is not under the storage root)
sockDirOf_Shared(d) == PathJoin(<<"/tmp">>, <<"sock">>)
sockDirOf(d) == PathJoin(d, <<"sock">>)
sockFileOf(d) == PathJoin(sockDirOf(d), <<"mysql.sock">>)
configFileOf(d) == PathJoin(d, <<"my.cnf">>)

binPathValue == <<"/usr/bin">>

\* ------------------------------------------------------------- MySQL Start
\* mysqltest.go:39-66: who is calling, and the service account when root
StartIdentity(p) ==
    /\ variant = "mysql"
    /\ pc[p] = "idle"
    /\ \E r \in {"ok", "currentFails", "lookupFails", "parseFails"} :
         /\ r \in {"lookupFails", "parseFails"} => me = "root"
         /\ IF r = "ok"
            THEN /\ isRoot' = [isRoot EXCEPT ![p] = (me = "root")]
                 /\ pc' = [pc EXCEPT ![p] = "tempdir"]
                 /\ log' = [log EXCEPT ![p] =
                             IF me = "root" THEN Append(@, Sys("lookup", "mysql"))
                             ELSE @]
                 /\ UNCHANGED ret
            ELSE /\ isRoot' = [isRoot EXCEPT ![p] =
                                 (r # "currentFails" /\ me = "root")]
                 /\ log' = [log EXCEPT ![p] =
                             IF r = "currentFails" THEN @
                             ELSE Append(@, Sys("lookup", "mysql"))]
                 /\ Fail(p, IF r = "currentFails" THEN Err(<<"user: Current">>)
                            ELSE IF r = "lookupFails"
                            THEN Err(<<"Could not find mysql user, which is required when running as root: ", "user: unknown user mysql">>)
                            ELSE Err(<<"strconv.ParseInt">>))
    /\ UNCHANGED << call, variant, me, fs, nextDir, dir, isMariaDB, osproc, pipes,
                    polls, handles, inst, stops >>

\* mysqltest.go:68-76: ioutil.TempDir("", "mysqltest")
StartTempDir(p) ==
    /\ variant = "mysql"
    /\ pc[p] = "tempdir"
    /\ \/ /\ Fail(p, Err(<<"mkdir /tmp: no space left on device">>))
          /\ UNCHANGED << fs, nextDir, dir >>
       \/ /\ nextDir < Len(TmpNames)
          /\ LET d == <<"/tmp/mysqltest">> \o TmpNames[nextDir + 1]
             IN /\ d \notin fs
                /\ fs' = fs \cup {d}
                /\ dir' = [dir EXCEPT ![p] = d]
          /\ nextDir' = nextDir + 1
          /\ pc' = [pc EXCEPT ![p] = "provision"]
          /\ UNCHANGED ret
    /\ UNCHANGED << call, variant, me, isRoot, isMariaDB, osproc, pipes, polls,
                    handles, inst, stops, log >>

\* the provisioning steps of mysqltest.go:78-103, in order, for a caller that
\* is root or not
ProvisionSteps(root) ==
    <<"mkdirData", "mkdirSock">>
        \o (IF root THEN <<"chmod", "chownData", "chownSock">> ELSE << >>)

\* what the first n provisioning steps leave in the file system
Provisioned(d, steps, n) ==
    { dataDirOf(d) : i \in { j \in 1..n : steps[j] = "mkdirData" } }
        \cup { sockDirOf(d) : i \in { j \in 1..n : steps[j] = "mkdirSock" } }

\* mysqltest.go:78-113: data and socket directory, ownership, my.cnf.  The
\* error of ioutil.WriteFile is overwritten at :116 without being looked at.
StartProvision(p) ==
    /\ variant = "mysql"
    /\ pc[p] = "provision"
    /\ LET steps == ProvisionSteps(isRoot[p])
       IN \/ \E k \in 1..Len(steps) :      \* step k fails
               /\ fs' = fs \cup Provisioned(dir[p], steps, k - 1)
               /\ log' = [log EXCEPT ![p] =
                           @ \o [i \in 1..k |->
                                   IF i = k THEN Failed(Sys("fs", steps[i]))
                                   ELSE Sys("fs", steps[i])]]
               /\ Fail(p, Err(<<steps[k], ": permission denied">>))
          \/ \E written \in BOOLEAN :       \* all succeed; WriteFile may not
               /\ fs' = fs \cup Provisioned(dir[p], steps, Len(steps))
                           \cup (IF written THEN {configFileOf(dir[p])} ELSE {})
               /\ log' = [log EXCEPT ![p] =
                           @ \o [i \in 1..Len(steps) |-> Sys("fs", steps[i])]
                             \o << IF written THEN Sys("fs", "writeFile")
                                   ELSE Failed(Sys("fs", "writeFile")) >>]
               /\ pc' = [pc EXCEPT ![p] = "locate"]
               /\ UNCHANGED ret
    /\ UNCHANGED << call, variant, me, nextDir, isRoot, dir, isMariaDB, osproc, pipes,
                    polls, handles, inst, stops >>

\* mysqltest.go:115-119 and findBinPath, :245-253
StartLocate(p) ==
    /\ variant = "mysql"
    /\ pc[p] = "locate"
    /\ log' = [log EXCEPT ![p] = Append(@, Sys("lookPath", "mysqld_safe"))]
    /\ \/ Fail(p, Err(<<"Did not find MySQL / MariaDB executables installed">>))
       \/ pc' = [pc EXCEPT ![p] = "version"] /\ UNCHANGED ret
    /\ UNCHANGED << call, variant, me, fs, nextDir, isRoot, dir, isMariaDB, osproc,
                    pipes, polls, handles, inst, stops >>

versionCmd(root) ==
    prepareCommand(root, PathJoin(binPathValue, <<"mysql">>), << <<"--version">> >>)

\* mysqltest.go:121-129: mysql --version, looked at for "MariaDB"
StartVersion(p) ==
    /\ variant = "mysql"
    /\ pc[p] = "version"
    /\ \/ \E out \in Outputs :
            /\ log' = [log EXCEPT ![p] =
                        Append(@, Failed(Exec("version", versionCmd(isRoot[p]), out)))]
            /\ Fail(p, Err(<<"Failed to get version: ">> \o ExitStatus.msg
                             \o <<" -> ">> \o out))
            /\ UNCHANGED isMariaDB
       \/ \E maria \in BOOLEAN :
            /\ log' = [log EXCEPT ![p] =
                        Append(@, Exec("version", versionCmd(isRoot[p]), << >>))]
            /\ isMariaDB' = [isMariaDB EXCEPT ![p] = maria]
            /\ pc' = [pc EXCEPT ![p] = "init"]
            /\ UNCHANGED ret
    /\ UNCHANGED << call, variant, me, fs, nextDir, isRoot, dir, osproc, pipes, polls,
                    handles, inst, stops >>

\* the bootstrap command, mysqltest.go:132-149
initCmd(root, maria, d) ==
    IF maria
    THEN prepareCommand(root, PathJoin(binPathValue, <<"mysql_install_db">>),
                        << <<"--datadir=">> \o dataDirOf(d) >>)
    ELSE prepareCommand(root, PathJoin(binPathValue, <<"mysqld_safe">>),
                        << <<"--initialize-insecure">>,
                           <<"--datadir=">> \o dataDirOf(d) >>)

\* mysqltest.go:131-149: create the data directory
StartInit(p) ==
    /\ variant = "mysql"
    /\ pc[p] = "init"
    /\ LET init == initCmd(isRoot[p], isMariaDB[p], dir[p])
       IN \/ \E out \in Outputs :
               /\ log' = [log EXCEPT ![p] = Append(@, Failed(Exec("init", init, out)))]
               /\ Fail(p, Err(<<"Failed to initialize DB: ">> \o ExitStatus.msg
                                \o <<" -> ">> \o out))
          \/ /\ log' = [log EXCEPT ![p] = Append(@, Exec("init", init, << >>))]
             /\ pc' = [pc EXCEPT ![p] = "spawn"]
             /\ UNCHANGED ret
    /\ UNCHANGED << call, variant, me, fs, nextDir, isRoot, dir, isMariaDB, osproc,
                    pipes, polls, handles, inst, stops >>

serverCmd(root, d) ==
    prepareCommand(root, PathJoin(binPathValue, <<"mysqld_safe">>),
                   << <<"--defaults-file=">> \o configFileOf(d) >>)

\* mysqltest.go:151-169: the pipes and cmd.Start().  When cmd.Start() fails,
\* cmd.Process is nil and abort dereferences it at :295.
StartSpawn(p) ==
    /\ variant = "mysql"
    /\ pc[p] = "spawn"
    /\ \/ /\ Fail(p, Err(<<"StderrPipe">>))
          /\ UNCHANGED << pipes, osproc, log >>
       \/ /\ Fail(p, Err(<<"StdoutPipe">>))
          /\ pipes' = [pipes EXCEPT ![p] = [stderr |-> "closed", stdout |-> "none"]]
          /\ UNCHANGED << osproc, log >>
       \/ LET server == Exec("server", serverCmd(isRoot[p], dir[p]), << >>)
          IN \/ /\ log' = [log EXCEPT ![p] = Append(@, Failed(server))]
                /\ pipes' = [pipes EXCEPT ![p] =
                              [stderr |-> "closed", stdout |-> "closed"]]
                /\ pc' = [pc EXCEPT ![p] = "panicked"]
                /\ UNCHANGED << osproc, ret >>
             \/ /\ log' = [log EXCEPT ![p] = Append(@, server)]
                /\ pipes' = [pipes EXCEPT ![p] =
                              [stderr |-> "open", stdout |-> "open"]]
                /\ osproc' = [osproc EXCEPT ![p] = "running"]
                /\ pc' = [pc EXCEPT ![p] = "connect"]
                /\ UNCHANGED ret
    /\ UNCHANGED << call, variant, me, fs, nextDir, isRoot, dir, isMariaDB, polls,
                    handles, inst, stops >>

\* (mysql.DB assigned before the Ping instead of after it)
lastHandle_Unpinged(fn, n) == OpenDB(<<"test">>)

\* mysql.DB after n calls of the closure of mysqltest.go:184-198: the handle
\* of the call whose Ping succeeded, if there is one (:196)
lastHandle(fn, n) ==
    IF \E i \in 1..n : fn[i].isNil
    THEN [OpenDB(<<"test">>) EXCEPT !.pinged = TRUE]
    ELSE NoDB

\* the struct built at mysqltest.go:171-181
newMySQL(d, root) ==
    [isNil |-> FALSE, dir |-> d, DB |-> NoDB, isRoot |-> root,
     binPath |-> binPathValue, sockFile |-> sockFileOf(d)]

\* The readiness poll of mysqltest.go:184-198 against each engine tried: the
\* first k calls of the closure fail, in sql.Open or in db.Ping as kind says.
\* r is what retry returns, DB what the closure has left in mysql.DB.
Polls ==
    { LET e == IF kind = "open" THEN Err(<<"sql: invalid DSN">>)
               ELSE Err(<<"dial unix: connection refused">>)
          fn == FnResults(k, e, Attempts + 1)
          r == retry(fn, Attempts)
      IN [kind |-> kind, r |-> r, DB |-> lastHandle(fn, r.calls)]
      : k \in ReadyAfter, kind \in {"open", "ping"} }

\* mysqltest.go:171-204: build the struct, poll for a connection; when the
\* budget is used up, abort (:294-295) signals the process and waits for it.
\* kind says whether the failing calls of fn fail in sql.Open or in db.Ping.
StartConnect(p) ==
    /\ variant = "mysql"
    /\ pc[p] = "connect"
    /\ \E o \in Polls :
         LET r == o.r
             opened == IF o.kind = "ping" THEN r.calls
                       ELSE IF r.err.isNil THEN 1 ELSE 0
         IN /\ polls' = [polls EXCEPT ![p] = [calls |-> r.calls, sleeps |-> r.sleeps,
                                              err |-> r.err]]
            /\ handles' = [handles EXCEPT ![p] = [opened |-> opened, closed |-> 0]]
            /\ IF r.err.isNil
               THEN /\ inst' = [inst EXCEPT ![p] =
                                 [newMySQL(dir[p], isRoot[p]) EXCEPT
                                    !.DB = o.DB]]
                    /\ pc' = [pc EXCEPT ![p] = "started"]
                    /\ ret' = [ret EXCEPT ![p] =
                                [done |-> TRUE, nilInst |-> FALSE, err |-> NilErr]]
                    /\ UNCHANGED log
               ELSE /\ inst' = [inst EXCEPT ![p] = newMySQL(dir[p], isRoot[p])]
                    /\ log' = [log EXCEPT ![p] = Append(@, Sys("signal", "interrupt"))]
                    /\ pc' = [pc EXCEPT ![p] = "abortWait"]
                    /\ UNCHANGED ret
    /\ UNCHANGED << call, variant, me, fs, nextDir, isRoot, dir, isMariaDB, osproc,
                    pipes, stops >>

\* ioutil.ReadAll on a pipe: what was written, if the pipe can still be read
ReadAll(pipe, written) == IF pipe = "open" THEN written ELSE << >>

\* (a Wait that leaves the pipes of the command alone)
AfterWait_KeepsPipes(pp) == pp

\* cmd.Wait() closes the pipes of StderrPipe / StdoutPipe once the command
\* has exited
AfterWait(pp) ==
    [stderr |-> IF pp.stderr = "open" THEN "closed" ELSE pp.stderr,
     stdout |-> IF pp.stdout = "open" THEN "closed" ELSE pp.stdout]

\* abort, mysqltest.go:296-302, from cmd.Wait() on: it returns once the
\* process has exited; then the pipes are read and closed
AbortWait(p) ==
    /\ variant = "mysql"
    /\ pc[p] = "abortWait"
    /\ osproc[p] = "exited"
    /\ osproc' = [osproc EXCEPT ![p] = "reaped"]
    /\ \E wout \in Outputs, werr \in Outputs :
         LET waited == AfterWait(pipes[p])
             serr == ReadAll(waited.stderr, werr)
             sout == ReadAll(waited.stdout, wout)
         IN /\ log' = [log EXCEPT ![p] =
                        @ \o << Wrote("stdout", wout), Wrote("stderr", werr),
                                Sys("wait", "cmd") >>]
            /\ pipes' = [pipes EXCEPT ![p] = [stderr |-> "closed", stdout |-> "closed"]]
            /\ Fail(p, Err(<<"Failed to connect to test DB", ": ">> \o polls[p].err.msg
                           \o <<"\nOUT: ">> \o sout \o <<"\nERR: ">> \o serr))
    /\ UNCHANGED << call, variant, me, fs, nextDir, isRoot, dir, isMariaDB, polls,
                    handles, inst, stops >>

\* the server process exits: by itself, after the interrupt, or after the
\* administrative shutdown
ProcExit(p) ==
    /\ osproc[p] = "running"
    /\ osproc' = [osproc EXCEPT ![p] = "exited"]
    /\ UNCHANGED << call, variant, me, fs, nextDir, pc, isRoot, dir, isMariaDB, pipes,
                    polls, handles, inst, ret, stops, log >>

\* -------------------------------------------------------------- MySQL Stop
\* (a Stop that ends in "return nil" on every path)
StopResult_AlwaysNil(e) == [panic |-> FALSE, err |-> NilErr]

\* what a call of Stop hands back: the error of its return statement
StopResult(e) == [panic |-> FALSE, err |-> e]
StopPanic == [panic |-> TRUE, err |-> NilErr]

\* (a removal placed after the early returns instead of being deferred)
DeferredRemove_NotDeferred(p, entries) ==
    /\ fs' = fs
    /\ log' = [log EXCEPT ![p] = @ \o entries]

\* the deferred os.RemoveAll(p.dir), mysqltest.go:212-215 and part_000:111-114:
\* its error is dropped.  Removing a path that does not exist succeeds.
\* entries: what the call logged before it returned.
DeferredRemove(p, entries) ==
    \E removed \in (IF inst[p].dir \in fs THEN BOOLEAN ELSE {TRUE}) :
        /\ fs' = IF removed THEN RemoveAll(fs, inst[p].dir) ELSE fs
        /\ log' = [log EXCEPT ![p] = @ \o entries \o
                     << Sys("removeAll", IF removed THEN "ok" ELSE "failed") >>]

shutdownCmd(i) ==
    prepareCommand(i.isRoot, PathJoin(i.binPath, <<"mysqladmin">>),
                   << <<"-u">>, <<"root">>, <<"-S">>, i.sockFile, <<"shutdown">> >>)

\* MySQL.Stop, mysqltest.go:207-226: nil check, then mysqladmin shutdown.  The
\* command can only succeed while the server is running.
Stop(p) ==
    /\ variant = "mysql"
    /\ pc[p] \in {"failed", "started", "stopped"}
    /\ Len(stops[p]) < MaxStops
    /\ IF ret[p].nilInst
       THEN /\ stops' = [stops EXCEPT ![p] = Append(@, StopResult(NilErr))]
            /\ UNCHANGED << fs, pc, log >>
       ELSE \/ \E out \in Outputs :
                 /\ DeferredRemove(p,
                       << Failed(Exec("shutdown", shutdownCmd(inst[p]), out)) >>)
                 /\ stops' = [stops EXCEPT ![p] = Append(@,
                       StopResult(Err(<<"Failed to shutdown DB: ">> \o ExitStatus.msg
                                      \o <<" -> ">> \o out)))]
                 /\ pc' = [pc EXCEPT ![p] = "stopped"]
            \/ /\ osproc[p] = "running"
               /\ log' = [log EXCEPT ![p] =
                           Append(@, Exec("shutdown", shutdownCmd(inst[p]), << >>))]
               /\ pc' = [pc EXCEPT ![p] = "stopWait"]
               /\ UNCHANGED << fs, stops >>
    /\ UNCHANGED << call, variant, me, nextDir, isRoot, dir, isMariaDB, osproc, pipes,
                    polls, handles, inst, ret >>

\* p.cmd.Wait(): blocks until the process has exited; a second Wait on the same
\* cmd fails at once ("Wait was already called").  TRUE when Wait can return.
WaitReturns(p) == osproc[p] \in {"exited", "reaped"}
\* the errors Wait can return
WaitErrors(p) ==
    IF osproc[p] = "reaped" THEN {Err(<<"exec: Wait was already called">>)}
    ELSE {NilErr, ExitStatus}

\* p.stderr.Close() and p.stdout.Close() under their nil checks,
\* mysqltest.go:233-239
ClosePipes(pp) ==
    [stderr |-> IF pp.stderr = "none" THEN "none" ELSE "closed",
     stdout |-> IF pp.stdout = "none" THEN "none" ELSE "closed"]

\* MySQL.Stop, mysqltest.go:228-242: wait, close the pipes, deferred removal
StopWait(p) ==
    /\ variant = "mysql"
    /\ pc[p] = "stopWait"
    /\ WaitReturns(p)
    /\ \E e \in WaitErrors(p) :
         /\ stops' = [stops EXCEPT ![p] = Append(@, StopResult(e))]
         /\ pipes' = [pipes EXCEPT ![p] =
                        IF e.isNil THEN ClosePipes(AfterWait(@)) ELSE AfterWait(@)]
         /\ DeferredRemove(p, << IF e.isNil THEN Sys("wait", "cmd")
                                 ELSE Failed(Sys("wait", "cmd")) >>)
    /\ osproc' = [osproc EXCEPT ![p] = "reaped"]
    /\ pc' = [pc EXCEPT ![p] = "stopped"]
    /\ UNCHANGED << call, variant, me, nextDir, isRoot, dir, isMariaDB, polls, handles,
                    inst, ret >>

\* ---------------------------------------------------------------- PG Start
\* part_000:24-30: ioutil.TempDir("", "pgtest")
PGStartTempDir(p) ==
    /\ variant = "pg"
    /\ pc[p] = "idle"
    /\ \/ /\ Fail(p, Err(<<"mkdir /tmp: no space left on device">>))
          /\ UNCHANGED << fs, nextDir, dir >>
       \/ /\ nextDir < Len(TmpNames)
          /\ LET d == <<"/tmp/pgtest">> \o TmpNames[nextDir + 1]
             IN /\ d \notin fs
                /\ fs' = fs \cup {d}
                /\ dir' = [dir EXCEPT ![p] = d]
          /\ nextDir' = nextDir + 1
          /\ pc' = [pc EXCEPT ![p] = "provision"]
          /\ UNCHANGED ret
    /\ UNCHANGED << call, variant, me, isRoot, isMariaDB, osproc, pipes, polls,
                    handles, inst, stops, log >>

\* part_000:32-40: data and socket directory
PGStartProvision(p) ==
    /\ variant = "pg"
    /\ pc[p] = "provision"
    /\ LET steps == ProvisionSteps(FALSE)
       IN \/ \E k \in 1..Len(steps) :
               /\ fs' = fs \cup Provisioned(dir[p], steps, k - 1)
               /\ log' = [log EXCEPT ![p] =
                           @ \o [i \in 1..k |->
                                   IF i = k THEN Failed(Sys("fs", steps[i]))
                                   ELSE Sys("fs", steps[i])]]
               /\ Fail(p, Err(<<steps[k], ": permission denied">>))
          \/ /\ fs' = fs \cup Provisioned(dir[p], steps, Len(steps))
             /\ log' = [log EXCEPT ![p] =
                         @ \o [i \in 1..Len(steps) |-> Sys("fs", steps[i])]]
             /\ pc' = [pc EXCEPT ![p] = "locate"]
             /\ UNCHANGED ret
    /\ UNCHANGED << call, variant, me, nextDir, isRoot, dir, isMariaDB, osproc, pipes,
                    polls, handles, inst, stops >>

\* part_000:42-46 and findBinPath, :130-138
PGStartLocate(p) ==
    /\ variant = "pg"
    /\ pc[p] = "locate"
    /\ log' = [log EXCEPT ![p] = Append(@, Sys("lookPath", "initdb"))]
    /\ \/ Fail(p, Err(<<"Did not find PostgreSQL executables installed">>))
       \/ pc' = [pc EXCEPT ![p] = "init"] /\ UNCHANGED ret
    /\ UNCHANGED << call, variant, me, fs, nextDir, isRoot, dir, isMariaDB, osproc,
                    pipes, polls, handles, inst, stops >>

pgInitCmd(d) ==
    Command(PathJoin(binPathValue, <<"initdb">>),
            << <<"-D">>, dataDirOf(d), <<"--no-sync">> >>)

\* part_000:48-56: initdb through init.Run(), which keeps no output
PGStartInit(p) ==
    /\ variant = "pg"
    /\ pc[p] = "init"
    /\ \/ \E out \in Outputs :
            /\ log' = [log EXCEPT ![p] =
                        Append(@, Failed(Exec("init", pgInitCmd(dir[p]), out)))]
            /\ Fail(p, Err(<<"Failed to initialize DB: ">> \o ExitStatus.msg))
       \/ /\ log' = [log EXCEPT ![p] = Append(@, Exec("init", pgInitCmd(dir[p]), << >>))]
          /\ pc' = [pc EXCEPT ![p] = "spawn"]
          /\ UNCHANGED ret
    /\ UNCHANGED << call, variant, me, fs, nextDir, isRoot, dir, isMariaDB, osproc,
                    pipes, polls, handles, inst, stops >>

pgServerCmd(d) ==
    Command(PathJoin(binPathValue, <<"postgres">>),
            << <<"-D">>, dataDirOf(d), <<"-k">>, sockDirOf(d), <<"-h">>, << >>,
               <<"-F">> >>)

\* part_000:58-69: cmd.Start()
PGStartSpawn(p) ==
    /\ variant = "pg"
    /\ pc[p] = "spawn"
    /\ \/ /\ log' = [log EXCEPT ![p] =
                      Append(@, Failed(Exec("server", pgServerCmd(dir[p]), << >>)))]
          /\ Fail(p, Err(<<"Failed to start PostgreSQL: ", "fork/exec">>))
          /\ UNCHANGED osproc
       \/ /\ log' = [log EXCEPT ![p] =
                      Append(@, Exec("server", pgServerCmd(dir[p]), << >>))]
          /\ osproc' = [osproc EXCEPT ![p] = "running"]
          /\ pc' = [pc EXCEPT ![p] = "connect"]
          /\ UNCHANGED ret
    /\ UNCHANGED << call, variant, me, fs, nextDir, isRoot, dir, isMariaDB, pipes,
                    polls, handles, inst, stops >>

\* One pass through the loop of Retrier.Run with the default classifier, as
\* called at part_000:79-83: the work is retried while fewer retries than
\* len(backoff) have been made.
retrierBody(fn, r) ==
    IF r.done THEN r
    ELSE LET n == r.calls + 1
             err == fn[n]
         IN IF err.isNil
            THEN [r EXCEPT !.calls = n, !.done = TRUE, !.err = NilErr]
            ELSE IF r.retries >= r.backoff
                 THEN [r EXCEPT !.calls = n, !.done = TRUE, !.err = err]
                 ELSE [r EXCEPT !.calls = n, !.sleeps = @ + 1, !.retries = @ + 1]

RECURSIVE retrierLoop(_, _, _)
retrierLoop(fn, r, n) ==
    IF n = 0 THEN r
    ELSE IF n = 1 THEN retrierBody(fn, r)
    ELSE LET h == n \div 2
             m == retrierLoop(fn, r, h)
         IN IF m.done THEN m ELSE retrierLoop(fn, m, n - h)

\* retrier.New(retrier.ConstantBackoff(n, interval), nil).Run(fn)
retrierRun(fn, n) ==
    retrierLoop(fn, [backoff |-> n, retries |-> 0, calls |-> 0, sleeps |-> 0,
                     done |-> FALSE, err |-> NilErr], Len(fn))

\* the struct built at part_000:100-105
newPG(d, db) == [isNil |-> FALSE, dir |-> d, DB |-> db]

\* What r.Run returns at part_000:80-83 against each engine tried: the first k
\* executions of CREATE DATABASE fail
PGPolls ==
    { retrierRun(FnResults(k, Err(<<"dial unix: connection refused">>),
                           Attempts + 2), Attempts) : k \in ReadyAfter }

\* part_000:71-107: open the postgres database, CREATE DATABASE test under the
\* retrier, close, open the test database.  No error path touches cmd.
PGStartConnect(p) ==
    /\ variant = "pg"
    /\ pc[p] = "connect"
    /\ \/ /\ Fail(p, Err(<<"sql: invalid DSN">>))               \* :73-76
          /\ UNCHANGED << polls, handles, inst >>
       \/ \E r \in PGPolls, closeOK \in BOOLEAN, openOK \in BOOLEAN :
               /\ polls' = [polls EXCEPT ![p] = [calls |-> r.calls,
                                                 sleeps |-> r.sleeps, err |-> r.err]]
               /\ IF ~r.err.isNil                                \* :84-86
                  THEN /\ Fail(p, r.err)
                       /\ handles' = [handles EXCEPT ![p] = [opened |-> 1, closed |-> 0]]
                       /\ UNCHANGED inst
                  ELSE IF ~closeOK                               \* :88-91
                  THEN /\ Fail(p, Err(<<"sql: close">>))
                       /\ handles' = [handles EXCEPT ![p] = [opened |-> 1, closed |-> 0]]
                       /\ UNCHANGED inst
                  ELSE IF ~openOK                                \* :95-98
                  THEN /\ Fail(p, Err(<<"sql: invalid DSN">>))
                       /\ handles' = [handles EXCEPT ![p] = [opened |-> 1, closed |-> 1]]
                       /\ UNCHANGED inst
                  ELSE /\ inst' = [inst EXCEPT ![p] = newPG(dir[p], OpenDB(<<"test">>))]
                       /\ handles' = [handles EXCEPT ![p] = [opened |-> 2, closed |-> 1]]
                       /\ pc' = [pc EXCEPT ![p] = "started"]
                       /\ ret' = [ret EXCEPT ![p] =
                                   [done |-> TRUE, nilInst |-> FALSE, err |-> NilErr]]
    /\ UNCHANGED << call, variant, me, fs, nextDir, isRoot, dir, isMariaDB, osproc,
                    pipes, stops, log >>

\* ----------------------------------------------------------------- PG Stop
\* PG.Stop, part_000:110-119: no nil check, so a nil receiver panics at p.cmd;
\* otherwise the interrupt, which fails for a process already waited for
PGStop(p) ==
    /\ variant = "pg"
    /\ pc[p] \in {"failed", "started", "stopped"}
    /\ Len(stops[p]) < MaxStops
    /\ IF ret[p].nilInst
       THEN /\ stops' = [stops EXCEPT ![p] = Append(@, StopPanic)]
            /\ pc' = [pc EXCEPT ![p] = "panicked"]
            /\ UNCHANGED << fs, log >>
       ELSE \/ /\ DeferredRemove(p, << Failed(Sys("signal", "interrupt")) >>)
               /\ stops' = [stops EXCEPT ![p] =
                             Append(@, StopResult(Err(<<"os: process already finished">>)))]
               /\ pc' = [pc EXCEPT ![p] = "stopped"]
            \/ /\ osproc[p] # "reaped"
               /\ log' = [log EXCEPT ![p] = Append(@, Sys("signal", "interrupt"))]
               /\ pc' = [pc EXCEPT ![p] = "stopWait"]
               /\ UNCHANGED << fs, stops >>
    /\ UNCHANGED << call, variant, me, nextDir, isRoot, dir, isMariaDB, osproc, pipes,
                    polls, handles, inst, ret >>

\* PG.Stop, part_000:121-126: wait, then the deferred removal
PGStopWait(p) ==
    /\ variant = "pg"
    /\ pc[p] = "stopWait"
    /\ WaitReturns(p)
    /\ \E e \in WaitErrors(p) :
         /\ stops' = [stops EXCEPT ![p] = Append(@, StopResult(e))]
         /\ DeferredRemove(p, << IF e.isNil THEN Sys("wait", "cmd")
                                 ELSE Failed(Sys("wait", "cmd")) >>)
    /\ osproc' = [osproc EXCEPT ![p] = "reaped"]
    /\ pc' = [pc EXCEPT ![p] = "stopped"]
    /\ UNCHANGED << call, variant, me, nextDir, isRoot, dir, isMariaDB, pipes, polls,
                    handles, inst, ret >>

\* ------------------------------------------------------------ specification
Next ==
    \E p \in Procs :
        \/ StartIdentity(p)
        \/ StartTempDir(p)
        \/ StartProvision(p)
        \/ StartLocate(p)
        \/ StartVersion(p)
        \/ StartInit(p)
        \/ StartSpawn(p)
        \/ StartConnect(p)
        \/ AbortWait(p)
        \/ ProcExit(p)
        \/ Stop(p)
        \/ StopWait(p)
        \/ PGStartTempDir(p)
        \/ PGStartProvision(p)
        \/ PGStartLocate(p)
        \/ PGStartInit(p)
        \/ PGStartSpawn(p)
        \/ PGStartConnect(p)
        \/ PGStop(p)
        \/ PGStopWait(p)

Spec == Init /\ [][Next]_vars

\* NProc callers run Start concurrently
InitConc ==
    /\ variant \in {"mysql", "pg"}
    /\ me \in {"root", "user"}
    /\ fs = {}
    /\ nextDir = 0
    /\ pc = [p \in Procs |-> "idle"]
    /\ isRoot = [p \in Procs |-> FALSE]
    /\ dir = [p \in Procs |-> << >>]
    /\ isMariaDB = [p \in Procs |-> FALSE]
    /\ osproc = [p \in Procs |-> "none"]
    /\ pipes = [p \in Procs |-> NoPipes]
    /\ polls = [p \in Procs |-> NoPolls]
    /\ handles = [p \in Procs |-> [opened |-> 0, closed |-> 0]]
    /\ inst = [p \in Procs |-> NoInst]
    /\ ret = [p \in Procs |-> NoRet]
    /\ stops = [p \in Procs |-> << >>]
    /\ log = [p \in Procs |-> << >>]
    /\ call = NoCall

NextConc ==
    \E p \in Procs :
        \/ StartIdentity(p)
        \/ StartTempDir(p)
        \/ StartProvision(p)
        \/ StartLocate(p)
        \/ StartVersion(p)
        \/ StartInit(p)
        \/ StartSpawn(p)
        \/ StartConnect(p)
        \/ AbortWait(p)
        \/ ProcExit(p)
        \/ PGStartTempDir(p)
        \/ PGStartProvision(p)
        \/ PGStartLocate(p)
        \/ PGStartInit(p)
        \/ PGStartSpawn(p)
        \/ PGStartConnect(p)

SpecConc == InitConc /\ [][NextConc]_vars

\* a step of the goroutine that runs Start for caller p
StartStep(p) ==
    \/ StartIdentity(p)
    \/ StartTempDir(p)
    \/ StartProvision(p)
    \/ StartLocate(p)
    \/ StartVersion(p)
    \/ StartInit(p)
    \/ StartSpawn(p)
    \/ StartConnect(p)
    \/ AbortWait(p)
    \/ PGStartTempDir(p)
    \/ PGStartProvision(p)
    \/ PGStartLocate(p)
    \/ PGStartInit(p)
    \/ PGStartSpawn(p)
    \/ PGStartConnect(p)

NextFair == \E p \in Procs : StartStep(p) \/ ProcExit(p)

\* One call of Start that keeps running: the calling goroutine is scheduled,
\* every one-shot command and every connection attempt returns, so a step of
\* Start that can be taken is taken.  Nothing obliges the server process to
\* exit.
SpecFair ==
    Init /\ [][NextFair]_vars /\ \A p \in Procs : WF_vars(StartStep(p))

\* ------------------------------------------- prepareCommand on its own
\* no caller of Start: the program state a call of a helper leaves alone
NoCaller ==
    /\ variant = "mysql"
    /\ me = "user"
    /\ fs = {}
    /\ nextDir = 0
    /\ pc = [p \in Procs |-> "absent"]
    /\ isRoot = [p \in Procs |-> FALSE]
    /\ dir = [p \in Procs |-> << >>]
    /\ isMariaDB = [p \in Procs |-> FALSE]
    /\ osproc = [p \in Procs |-> "none"]
    /\ pipes = [p \in Procs |-> NoPipes]
    /\ polls = [p \in Procs |-> NoPolls]
    /\ handles = [p \in Procs |-> [opened |-> 0, closed |-> 0]]
    /\ inst = [p \in Procs |-> NoInst]
    /\ ret = [p \in Procs |-> NoRet]
    /\ stops = [p \in Procs |-> << >>]
    /\ log = [p \in Procs |-> << >>]

program == << variant, me, fs, nextDir, pc, isRoot, dir, isMariaDB, osproc,
              pipes, polls, handles, inst, ret, stops, log >>

\* argument strings: empty, plain, and with a blank or a quote in them
ArgValues ==
    { << >>, <<"-u">>, <<"root">>, <<"two", " ", "words">>, <<"it", "'", "s">> }
ArgLists == UNION { [1..n -> ArgValues] : n \in 0..MaxArgs }
Executables == { PathJoin(binPathValue, <<"mysqladmin">>),
                 PathJoin(binPathValue, <<"mysqld_safe">>) }

InitCmd ==
    /\ NoCaller
    /\ call \in [stage : {"args"}, root : BOOLEAN, command : Executables,
                 args : ArgLists, cmd : {NoCmd}, words : {<< >>}]

\* prepareCommand(isRoot, command, args...) is called
PrepareCommandCall ==
    /\ call.stage = "args"
    /\ call' = [call EXCEPT !.stage = "built",
                            !.cmd = prepareCommand(call.root, call.command, call.args)]
    /\ UNCHANGED program

\* the command is run; su hands the line after -c to the shell of mysql
RunCommand ==
    /\ call.stage = "built"
    /\ call' = [call EXCEPT !.stage = "run",
                            !.words = IF call.cmd.path = <<"su">>
                                      THEN ShellSplit(call.cmd.args[4])
                                      ELSE <<call.cmd.path>> \o call.cmd.args]
    /\ UNCHANGED program

NextCmd == PrepareCommandCall \/ RunCommand

SpecCmd == InitCmd /\ [][NextCmd]_vars

\* ---------------------------------------------------- retry on its own
\* what the calls of fn return: call i fails with an error of its own or
\* succeeds
FnOutcomes ==
    { [i \in 1..(MaxAttempts + 1) |->
         IF i \in F THEN Err(<<"error of call ", ToString(i)>>) ELSE NilErr]
      : F \in SUBSET (1..(MaxAttempts + 1)) }

InitRetry ==
    /\ NoCaller
    /\ call \in [stage : {"args"}, fn : FnOutcomes, attempts : (-1)..MaxAttempts,
                 r : {[attempts |-> 0, calls |-> 0, sleeps |-> 0,
                       done |-> FALSE, err |-> NilErr]},
                 trace : {<< >>}]

\* retry(fn, attempts, interval) is entered
RetryCall ==
    /\ call.stage = "args"
    /\ call' = [call EXCEPT !.stage = "loop", !.r.attempts = call.attempts]
    /\ UNCHANGED program

\* one pass through the loop of retry; trace keeps the calls of fn and of
\* time.Sleep in the order they were made
RetryPass ==
    /\ call.stage = "loop"
    /\ ~call.r.done
    /\ LET r == retryBody(call.fn, call.r)
       IN call' = [call EXCEPT
                     !.r = r,
                     !.trace = @ \o (IF r.calls > call.r.calls THEN <<"fn">> ELSE << >>)
                                 \o (IF r.sleeps > call.r.sleeps THEN <<"sleep">> ELSE << >>)]
    /\ UNCHANGED program

\* retry returns
RetryReturn ==
    /\ call.stage = "loop"
    /\ call.r.done
    /\ call' = [call EXCEPT !.stage = "returned"]
    /\ UNCHANGED program

NextRetry == RetryCall \/ RetryPass \/ RetryReturn

SpecRetry == InitRetry /\ [][NextRetry]_vars

\* ================================================================== claims
Last(q) == q[Len(q)]
\* Start has returned an Instance to caller p
Started(p) == ret[p].done /\ ~ret[p].nilInst
\* some path at or under d exists
Exists(d) == \E f \in fs : HasPrefix(f, d)
\* the entries of log[p] that satisfy Is(_)
Entries(p, Is(_)) == { i \in 1..Len(log[p]) : Is(log[p][i]) }
IsExec(e) == e.op = "exec"
IsServer(e) == e.op = "exec" /\ e.what = "server"
IsShutdown(e) == (e.op = "exec" /\ e.what = "shutdown") \/ e.op = "signal"
IsWait(e) == e.op = "wait"

\* C1, as stated: once a Stop on a started Instance has returned, the storage
\* root no longer exists, whichever path Stop took.
C1_RootGoneAfterStop ==
    \A p \in Procs :
        (pc[p] = "stopped" /\ Len(stops[p]) = 1) => ~Exists(inst[p].dir)

\* C1, amended: once a Stop on a started Instance has returned, the removal of
\* the storage root was the last thing that call did, whichever path it took,
\* and the storage root is gone unless that removal itself failed.
C1_StopAlwaysRemoves ==
    \A p \in Procs :
        pc[p] = "stopped" =>
            /\ Last(log[p]).op = "removeAll"
            /\ Last(log[p]).what = "ok" => ~Exists(inst[p].dir)

\* a first Stop whose shutdown or signal failed, and that removed the root
C1_Witness ==
    \E p \in Procs :
        /\ pc[p] = "stopped" /\ Len(stops[p]) = 1
        /\ ~stops[p][1].err.isNil
        /\ Entries(p, IsWait) = {}
        /\ Last(log[p]).what = "ok" /\ ~Exists(inst[p].dir)

\* C2: when Start returns an error it returns no Instance and the temporary
\* storage root this call allocated no longer exists.
C2_FailedStartLeavesNothing ==
    \A p \in Procs :
        pc[p] = "failed" =>
            /\ ret[p].nilInst
            /\ dir[p] # << >> => ~Exists(dir[p])

\* C3: Stop on a nil Instance, and a second Stop after a completed first one,
\* return no error, do not panic and run no shutdown command, signal or wait
\* again.
C3_StopIsRepeatable ==
    \A p \in Procs :
        /\ \A i \in 1..Len(stops[p]) :
             (ret[p].nilInst \/ i >= 2) =>
                 ~stops[p][i].panic /\ stops[p][i].err.isNil
        /\ Started(p) =>
             /\ Cardinality(Entries(p, IsShutdown)) <= 1
             /\ Cardinality(Entries(p, IsWait)) <= 1

\* C4, as stated: when Start returns without error the Instance is non-nil,
\* its DB is non-nil, open on the database "test", and that same handle has
\* already answered a liveness check.
C4_HandlePinged ==
    \A p \in Procs :
        (ret[p].done /\ ret[p].err.isNil) =>
            /\ ~ret[p].nilInst /\ ~inst[p].isNil
            /\ ~inst[p].DB.isNil /\ ~inst[p].DB.closed
            /\ inst[p].DB.name = <<"test">>
            /\ inst[p].DB.pinged

\* C4, amended: when Start returns without error the Instance is non-nil and
\* its DB is non-nil and open on the database "test"; MySQL's handle has
\* already answered a Ping, PG's handle was opened after CREATE DATABASE test
\* succeeded on the administrative connection and has not been used yet.
C4_HandleOpenOnTest ==
    \A p \in Procs :
        (ret[p].done /\ ret[p].err.isNil) =>
            /\ ~ret[p].nilInst /\ ~inst[p].isNil
            /\ ~inst[p].DB.isNil /\ ~inst[p].DB.closed
            /\ inst[p].DB.name = <<"test">>
            /\ variant = "mysql" => inst[p].DB.pinged
            /\ variant = "pg" =>
                 ~inst[p].DB.pinged /\ polls[p].err.isNil /\ polls[p].calls >= 1

\* a MySQL Start that succeeded on the last poll of its budget
C4_Witness ==
    \E p \in Procs :
        /\ variant = "mysql" /\ pc[p] = "started"
        /\ polls[p].calls = Attempts /\ inst[p].DB.pinged

Budget == IF variant = "mysql" THEN Attempts ELSE Attempts + 1

C6_BootstrapFailure ==
    \A p \in Procs :
        (pc[p] = "failed" /\ HasPrefix(ret[p].err.msg, <<"Failed to initialize DB: ">>)) =>
            /\ Contains(ret[p].err.msg, Last(log[p]).out)
            /\ Entries(p, IsServer) = {}

\* the socket path of the Instance of caller p: MySQL keeps it in sockFile, PG
\* passes it to postgres with -k
SockPath(p) ==
    IF variant = "mysql" THEN inst[p].sockFile
    ELSE log[p][CHOOSE i \in Entries(p, IsServer) : TRUE].cmd.args[4]

\* C7: no two Instances of concurrent Start calls share a storage root or a
\* socket path, and each Instance's socket path lies under its own storage
\* root and under no other's.
C7_DistinctRoots ==
    \A p \in Procs : \A q \in Procs \ {p} :
        (Started(p) /\ Started(q)) =>
            /\ inst[p].dir # inst[q].dir
            /\ SockPath(p) # SockPath(q)
            /\ HasPrefix(SockPath(p), inst[p].dir \o <<"/">>)
            /\ ~HasPrefix(SockPath(p), inst[q].dir)
            /\ dataDirOf(inst[p].dir) \in fs /\ dataDirOf(inst[p].dir) # dataDirOf(inst[q].dir)

\* two callers hold an Instance at the same time
C7_Witness ==
    \E p \in Procs : \E q \in Procs \ {p} :
        pc[p] = "started" /\ pc[q] = "started"

\* C8: as root, a failed lookup of the service account makes Start fail
\* before any directory is made or command run, and every engine command goes
\* through su; when not root, none does.
C8_NeverEngineAsRoot ==
    \A p \in Procs :
        /\ (pc[p] = "failed" /\ HasPrefix(ret[p].err.msg,
              <<"Could not find mysql user, which is required when running as root: ">>)) =>
                 dir[p] = << >> /\ Entries(p, IsExec) = {}
        /\ \A i \in Entries(p, IsExec) :
             (me = "root") <=> (log[p][i].cmd.path = <<"su">>)

\* C9: a Start that fails after the server process was launched has sent it
\* an interrupt and waited for it before returning.
C9_FailedStartReapsServer ==
    \A p \in Procs :
        (pc[p] = "failed" /\ osproc[p] # "none") =>
            /\ osproc[p] = "reaped"
            /\ \E i, j \in 1..Len(log[p]) :
                 i < j /\ log[p][i].op = "signal" /\ log[p][j].op = "wait"

\* C10: every Stop on a started Instance that returns has waited for the
\* server process first.
C10_StopWaits ==
    \A p \in Procs :
        pc[p] = "stopped" =>
            Len(log[p]) >= 2 /\ log[p][Len(log[p]) - 1].op = "wait"

\* the error Stop returns when its shutdown command (MySQL) or its interrupt
\* (PG) failed, for the log entry a of that call
ShutdownError(a) ==
    IF variant = "mysql"
    THEN Err(<<"Failed to shutdown DB: ">> \o ExitStatus.msg \o <<" -> ">> \o a.out)
    ELSE Err(<<"os: process already finished">>)

\* C11: what Stop returns is the first error met in the order shutdown
\* command or signal, then process wait; it is nil exactly when both
\* succeeded; the removal of the storage root is attempted on every path and
\* its failure never changes what is returned.
C11_StopReturnsFirstError ==
    \A p \in Procs :
        pc[p] = "stopped" =>
            LET n == Len(log[p])
                a == log[p][n - 1]
                r == Last(stops[p]).err
            IN /\ n >= 2 /\ log[p][n].op = "removeAll"
               /\ IsShutdown(a) \/ IsWait(a)
               /\ IsShutdown(a) => ~a.ok /\ ~r.isNil /\ r = ShutdownError(a)
               /\ IsWait(a) =>
                    /\ IsShutdown(log[p][n - 2]) /\ log[p][n - 2].ok
                    /\ r.isNil <=> a.ok
                    /\ r.isNil \/ r \in {ExitStatus, Err(<<"exec: Wait was already called">>)}

\* a Stop whose shutdown and wait succeeded and whose removal failed: it
\* returned nil
C11_Witness ==
    \E p \in Procs :
        /\ pc[p] = "stopped" /\ Len(stops[p]) = 1
        /\ Last(log[p]).op = "removeAll" /\ Last(log[p]).what = "failed"
        /\ Last(stops[p]).err.isNil

IsFsFailure(e) == e.op = "fs" /\ ~e.ok

\* C12: a failure of any filesystem step of storage provisioning (temporary
\* root, data or socket directory, chmod or chown, writing the configuration
\* file) makes Start return an error, and no engine command is run after it in
\* that call.
C12_ProvisioningFailureAborts ==
    \A p \in Procs :
        /\ \A i \in Entries(p, IsFsFailure) :
             /\ ret[p].done /\ ret[p].nilInst /\ ~ret[p].err.isNil
             /\ \A j \in Entries(p, IsExec) : j < i
        /\ (ret[p].done /\ dir[p] = << >>) => Entries(p, IsExec) = {}

IsWrote(e) == e.op = "wrote"

\* C13: when Start fails because the readiness budget is used up, the error
\* it returns contains the last connection failure and what the server
\* process wrote to stdout and stderr (the pipes are read while they can
\* still be read).
C13_ExhaustionReportsOutput ==
    \A p \in Procs :
        (pc[p] = "failed" /\ ~polls[p].err.isNil) =>
            /\ Contains(ret[p].err.msg, polls[p].err.msg)
            /\ \A i \in Entries(p, IsWrote) :
                 Contains(ret[p].err.msg, log[p][i].out)

IsSpawnFailure(e) == IsServer(e) /\ ~e.ok

\* C14: when the server process cannot be spawned, Start returns an error
\* and no Instance; it does not panic and neither signals nor waits for a
\* process that does not exist.
C14_SpawnFailureFails ==
    \A p \in Procs :
        Entries(p, IsSpawnFailure) # {} =>
            /\ ret[p].done /\ ret[p].nilInst /\ ~ret[p].err.isNil
            /\ \A i \in 1..Len(log[p]) : log[p][i].op \notin {"signal", "wait"}

\* C15: once invoked, Start eventually returns, whatever the server process
\* does, also when it neither becomes reachable nor exits on the interrupt.
C15_StartReturns ==
    \A p \in Procs : (pc[p] # "absent") ~> ret[p].done

\* s has no blank and no quote in it
Clean(str) == \A i \in 1..Len(str) : str[i] \notin {" ", "'"}

\* C16: not as root, prepareCommand gives the direct invocation of the
\* executable with the given arguments; as root it gives su - mysql -c <line>,
\* and for arguments without blanks and shell metacharacters, empty ones
\* included, the shell splits <line> back into the executable followed by the
\* same arguments in the same order.
C16_CommandWrapper ==
    call.stage \in {"built", "run"} =>
        /\ ~call.root => call.cmd = [path |-> call.command, args |-> call.args]
        /\ call.root =>
              /\ call.cmd.path = <<"su">> /\ Len(call.cmd.args) = 4
              /\ SubSeq(call.cmd.args, 1, 3) = << <<"-">>, <<"mysql">>, <<"-c">> >>
              /\ HasPrefix(call.cmd.args[4], call.command)
        /\ (call.stage = "run" /\ \A i \in 1..Len(call.args) : Clean(call.args[i])) =>
              call.words = <<call.command>> \o call.args

\* as root, a command with an empty argument has been run
C16_Witness ==
    /\ call.stage = "run" /\ call.root
    /\ Len(call.args) = MaxArgs /\ call.args[1] = << >> /\ call.args[2] = <<"root">>
    /\ call.words = <<call.command, << >>, <<"root">> >>

Max(a, b) == IF a >= b THEN a ELSE b

\* C17: retry calls fn one call after the other and stops at the first
\* success; it returns nil iff a call of fn returned nil, else the error of
\* the last call; when every call fails it has made max(attempts, 1) calls;
\* it sleeps once between two consecutive calls and never after the last.
C17_Retry ==
    /\ call.stage \in {"loop", "returned"} =>
          /\ \A i \in 1..Len(call.trace) :
                call.trace[i] = IF i % 2 = 1 THEN "fn" ELSE "sleep"
          /\ call.r.calls <= Max(call.attempts, 1)
          /\ \A i \in 1..(call.r.calls - 1) : ~call.fn[i].isNil
    /\ call.stage = "returned" =>
          LET n == call.r.calls
          IN /\ n >= 1 /\ Len(call.trace) = 2 * n - 1
             /\ call.r.sleeps = n - 1
             /\ call.r.err.isNil <=> \E i \in 1..n : call.fn[i].isNil
             /\ call.r.err = call.fn[n]
             /\ ~call.r.err.isNil => n = Max(call.attempts, 1)

\* retry has returned the error of the only call it made, for attempts <= 0
C17_Witness ==
    /\ call.stage = "returned" /\ call.attempts <= 0
    /\ call.r.calls = 1 /\ call.r.err = call.fn[1] /\ ~call.r.err.isNil

\* the handles opened by the Start of caller p and not closed
Unclosed(p) == handles[p].opened - handles[p].closed

\* C18: when Start returns, at most one connection handle it opened is left
\* unclosed; DB holds only a handle whose liveness check succeeded, and the
\* handles of the attempts whose check failed are closed, on success and on
\* exhaustion of the budget alike.
C18_FailedHandlesClosed ==
    \A p \in Procs :
        ret[p].done =>
            /\ Unclosed(p) <= 1
            /\ variant = "mysql" =>
                 /\ Unclosed(p) = IF ret[p].err.isNil THEN 1 ELSE 0
                 /\ (~inst[p].isNil /\ ~inst[p].DB.isNil) => inst[p].DB.pinged

\* a step of a Stop call of caller p
StopStep(p) == Stop(p) \/ StopWait(p) \/ PGStop(p) \/ PGStopWait(p)

\* what a step of Stop leaves alone: the Instance with its DB, dir, binPath,
\* sockFile and isRoot, and the connection handles
StopFrame(p) ==
    /\ inst' = inst /\ handles' = handles
    /\ dir' = dir /\ isRoot' = isRoot /\ ret' = ret

\* C19, as stated: Stop neither closes nor reassigns DB and does not modify
\* dir, cmd, binPath, sockFile or isRoot; the pipes are released only on the
\* fully successful path, after the process wait.
C19_PipesOnlyOnSuccess ==
    [][\A p \in Procs :
         StopStep(p) =>
             /\ StopFrame(p)
             /\ pipes'[p] # pipes[p] =>
                  pc[p] = "stopWait" /\ Last(stops'[p]).err.isNil]_vars

\* C19, amended: Stop neither closes nor reassigns DB and does not modify
\* dir, cmd, binPath, sockFile or isRoot; the pipes are released by the
\* process wait, whatever it returns, and never on the path that returns
\* before the wait.
C19_PipesReleasedByWait ==
    [][\A p \in Procs :
         StopStep(p) =>
             /\ StopFrame(p)
             /\ pipes'[p] # pipes[p] => pc[p] = "stopWait"
             /\ pc[p] = "stopWait" =>
                  pipes'[p].stderr # "open" /\ pipes'[p].stdout # "open"
             /\ pc[p] # "stopWait" => pipes'[p] = pipes[p]]_vars

\* a Stop whose process wait returned an error, with both pipes closed
C19_Witness ==
    \E p \in Procs :
        /\ variant = "mysql" /\ pc[p] = "stopped" /\ Len(stops[p]) = 1
        /\ Last(stops[p]).err = ExitStatus
        /\ pipes[p] = [stderr |-> "closed", stdout |-> "closed"]

====
